---- MODULE Spec2Model ----
(***************************************************************************)
(* The chat client of infinite-chat: the ChatContext reducer, the          *)
(* conversation operations of useConversations and the streaming send of   *)
(* useChat, as one state machine.  Every await of the source is a step     *)
(* boundary; the synchronous code between two awaits is one action.        *)
(***************************************************************************)
EXTENDS Integers, Sequences, FiniteSets, TLC

\* ------------------------------------------------------------------------
\* JavaScript values.  Text (message content, input) is a sequence of
\* one-character strings; ids, agents and conversation ids are strings.
\* ------------------------------------------------------------------------
Null == "null"
Undefined == "undefined"

\* if (v) on a string-or-absent value
Truthy(v) == v \notin {Undefined, Null, ""}

\* String.prototype.trim on a text: whitespace removed at both ends
RECURSIVE TrimStart(_)
TrimStart(t) == IF t # <<>> /\ Head(t) = " " THEN TrimStart(Tail(t)) ELSE t

RECURSIVE TrimEnd(_)
TrimEnd(t) ==
    IF t # <<>> /\ t[Len(t)] = " " THEN TrimEnd(SubSeq(t, 1, Len(t) - 1)) ELSE t

trim(t) == TrimEnd(TrimStart(t))

\* ------------------------------------------------------------------------
\* ChatContext: ChatState, initialState, chatReducer
\* ------------------------------------------------------------------------
initialState ==
    [messages |-> <<>>,
     conversations |-> <<>>,
     currentConversationId |-> Null,
     isLoadingHistory |-> FALSE,
     showSidebar |-> FALSE,
     inputValue |-> <<>>]

\* { ...msg, ...updates }: every own key of updates overrides, a key whose
\* value is undefined included
Spread(msg, updates) ==
    [f \in DOMAIN msg \cup DOMAIN updates |->
        IF f \in DOMAIN updates THEN updates[f] ELSE msg[f]]

\* a map that updates every message, whatever its id
MapAllMessages(messages, id, updates) ==
    [i \in 1..Len(messages) |-> Spread(messages[i], updates)]

MapMessages(messages, id, updates) ==
    [i \in 1..Len(messages) |->
        IF messages[i].id = id THEN Spread(messages[i], updates) ELSE messages[i]]

\* a reducer whose change of conversation also empties the messages
chatReducerClearsOnSwitch(st, action) ==
    CASE action.type = "SET_MESSAGES" ->
            [st EXCEPT !.messages = action.payload]
      [] action.type = "ADD_MESSAGE" ->
            [st EXCEPT !.messages = Append(st.messages, action.payload)]
      [] action.type = "UPDATE_MESSAGE" ->
            [st EXCEPT !.messages =
                MapMessages(st.messages, action.payload.id, action.payload.updates)]
      [] action.type = "SET_CONVERSATIONS" ->
            [st EXCEPT !.conversations = action.payload]
      [] action.type = "SET_CURRENT_CONVERSATION_ID" ->
            [st EXCEPT !.currentConversationId = action.payload, !.messages = <<>>]
      [] action.type = "SET_LOADING_HISTORY" ->
            [st EXCEPT !.isLoadingHistory = action.payload]
      [] action.type = "SET_SHOW_SIDEBAR" ->
            [st EXCEPT !.showSidebar = action.payload]
      [] action.type = "SET_INPUT_VALUE" ->
            [st EXCEPT !.inputValue = action.payload]
      [] action.type = "RESET_MESSAGES" ->
            [st EXCEPT !.messages = <<>>]
      [] OTHER -> st

\* function chatReducer(state, action): switch (action.type) { ... }
chatReducer(st, action) ==
    CASE action.type = "SET_MESSAGES" ->
            [st EXCEPT !.messages = action.payload]
      [] action.type = "ADD_MESSAGE" ->
            [st EXCEPT !.messages = Append(st.messages, action.payload)]
      [] action.type = "UPDATE_MESSAGE" ->
            [st EXCEPT !.messages =
                MapMessages(st.messages, action.payload.id, action.payload.updates)]
      [] action.type = "SET_CONVERSATIONS" ->
            [st EXCEPT !.conversations = action.payload]
      [] action.type = "SET_CURRENT_CONVERSATION_ID" ->
            [st EXCEPT !.currentConversationId = action.payload]
      [] action.type = "SET_LOADING_HISTORY" ->
            [st EXCEPT !.isLoadingHistory = action.payload]
      [] action.type = "SET_SHOW_SIDEBAR" ->
            [st EXCEPT !.showSidebar = action.payload]
      [] action.type = "SET_INPUT_VALUE" ->
            [st EXCEPT !.inputValue = action.payload]
      [] action.type = "RESET_MESSAGES" ->
            [st EXCEPT !.messages = <<>>]
      [] OTHER -> st

Action(type, payload) == [type |-> type, payload |-> payload]

UpdateMessage(id, updates) ==
    Action("UPDATE_MESSAGE", [id |-> id, updates |-> updates])

\* ------------------------------------------------------------------------
\* The body of POST /chat as the transport delivers it: a sequence of
\* bytes.  The model's byte is a token of the text: the newline, the
\* 6-character prefix "data: ", the two halves of a JSON text (a JSON
\* object text cut anywhere leaves two pieces neither of which parses),
\* the sentinel, a payload that is no JSON, a line of other text.
\* ------------------------------------------------------------------------
NoFrame ==
    [type |-> "", hasData |-> FALSE, content |-> <<>>,
     agent |-> Undefined, conversation_id |-> Undefined]

Frame(type, content, agent, cid) ==
    [type |-> type, hasData |-> TRUE, content |-> content,
     agent |-> agent, conversation_id |-> cid]

\* {"type": t} with no data member
FrameNoData(type) == [NoFrame EXCEPT !.type = type]

Byte(k, f) == [k |-> k, f |-> f]

NL == Byte("\n", NoFrame)
DataPrefix == Byte("data: ", NoFrame)

\* JSON.stringify of a frame, as the server writes it after the prefix
JSONText(f) == <<Byte("json-head", f), Byte("json-tail", f)>>

DataLine(f) == <<DataPrefix>> \o JSONText(f)
DoneLine == <<DataPrefix, Byte("[DONE]", NoFrame)>>
JunkLine == <<DataPrefix, Byte("junk", NoFrame)>>
TextLine == <<Byte("text", NoFrame)>>

\* JSON.parse: the value of a complete JSON text, a SyntaxError otherwise
JSONParses(payload) ==
    /\ Len(payload) = 2
    /\ payload[1].k = "json-head"
    /\ payload[2].k = "json-tail"
    /\ payload[1].f = payload[2].f

JSONParse(payload) == payload[1].f

\* chunk.split('\n')
RECURSIVE Split(_, _)
Split(bytes, line) ==
    IF bytes = <<>> THEN <<line>>
    ELSE IF Head(bytes) = NL THEN <<line>> \o Split(Tail(bytes), <<>>)
    ELSE Split(Tail(bytes), Append(line, Head(bytes)))

split(bytes) == Split(bytes, <<>>)

\* line.startsWith('data: ')
startsWithData(line) == line # <<>> /\ Head(line) = DataPrefix

\* line.slice(6)
slice6(line) == Tail(line)

\* ------------------------------------------------------------------------
\* useChat.sendMessage: the body of the read loop.  rl is what the loop
\* reads and writes: the Store state, the local accumulatedContent, the
\* GET /conversations requests in flight, and the record of the actions
\* dispatched from the loop so far.
\* ------------------------------------------------------------------------
Dispatch(rl, action) ==
    [rl EXCEPT !.state = chatReducer(@, action),
               !.dispatched = Append(@, action)]

\* if (data.type === 'agent_selection') { ... }; data.data.conversation_id
\* throws a TypeError when data.data is undefined, before any dispatch
AgentSelection(rl, f, id) ==
    IF ~f.hasData THEN rl
    ELSE LET r1 == IF Truthy(f.conversation_id)
                   THEN Dispatch(rl, Action("SET_CURRENT_CONVERSATION_ID",
                                            f.conversation_id))
                   ELSE rl
         IN  IF Truthy(f.agent)
             THEN Dispatch(r1, UpdateMessage(id, [agent |-> f.agent]))
             ELSE r1

\* a chunk branch that dispatches the new piece only
ChunkDelta(rl, f, id) ==
    LET newContent == IF f.hasData THEN f.content ELSE <<>>
        agent == IF f.hasData THEN f.agent ELSE Undefined
        accumulatedContent == rl.accumulatedContent \o newContent
    IN  IF newContent # <<>>
        THEN Dispatch([rl EXCEPT !.accumulatedContent = accumulatedContent],
                      UpdateMessage(id, [content |-> newContent, agent |-> agent]))
        ELSE rl

\* else if (data.type === 'chunk') { ... }
Chunk(rl, f, id) ==
    LET newContent == IF f.hasData THEN f.content ELSE <<>>
        agent == IF f.hasData THEN f.agent ELSE Undefined
        accumulatedContent == rl.accumulatedContent \o newContent
    IN  IF newContent # <<>>
        THEN Dispatch([rl EXCEPT !.accumulatedContent = accumulatedContent],
                      UpdateMessage(id, [content |-> accumulatedContent,
                                         agent |-> agent]))
        ELSE rl

\* else if (data.type === 'complete') { loadUserConversations(); }
Complete(rl) == [rl EXCEPT !.listRequests = @ + 1]

\* a loop that takes the sentinel for a complete frame
ProcessLineDoneCompletes(rl, line, id) ==
    IF ~startsWithData(line) THEN rl
    ELSE LET jsonData == slice6(line)
         IN  IF jsonData = <<Byte("[DONE]", NoFrame)>> THEN Complete(rl)
             ELSE IF ~JSONParses(jsonData) THEN rl
             ELSE LET data == JSONParse(jsonData)
                  IN  CASE data.type = "agent_selection" -> AgentSelection(rl, data, id)
                        [] data.type = "chunk" -> Chunk(rl, data, id)
                        [] data.type = "complete" -> Complete(rl)
                        [] OTHER -> rl

\* a loop that takes a frame of any other type for a chunk
ProcessLineAnyType(rl, line, id) ==
    IF ~startsWithData(line) THEN rl
    ELSE LET jsonData == slice6(line)
         IN  IF jsonData = <<Byte("[DONE]", NoFrame)>> THEN rl
             ELSE IF ~JSONParses(jsonData) THEN rl
             ELSE LET data == JSONParse(jsonData)
                  IN  CASE data.type = "agent_selection" -> AgentSelection(rl, data, id)
                        [] data.type = "complete" -> Complete(rl)
                        [] OTHER -> Chunk(rl, data, id)

\* a loop whose parse failure writes the failure into the placeholder
ProcessLineParseShown(rl, line, id) ==
    IF ~startsWithData(line) THEN rl
    ELSE LET jsonData == slice6(line)
         IN  IF jsonData = <<Byte("[DONE]", NoFrame)>> THEN rl
             ELSE IF ~JSONParses(jsonData)
                  THEN Dispatch(rl, UpdateMessage(id, [content |-> <<"SyntaxError">>,
                                                       isLoading |-> FALSE]))
             ELSE LET data == JSONParse(jsonData)
                  IN  CASE data.type = "agent_selection" -> AgentSelection(rl, data, id)
                        [] data.type = "chunk" -> Chunk(rl, data, id)
                        [] data.type = "complete" -> Complete(rl)
                        [] OTHER -> rl

\* the body of  for (const line of lines)
ProcessLine(rl, line, id) ==
    IF ~startsWithData(line) THEN rl
    ELSE LET jsonData == slice6(line)
         IN  IF jsonData = <<Byte("[DONE]", NoFrame)>> THEN rl
             ELSE IF ~JSONParses(jsonData) THEN rl
             ELSE LET data == JSONParse(jsonData)
                  IN  CASE data.type = "agent_selection" -> AgentSelection(rl, data, id)
                        [] data.type = "chunk" -> Chunk(rl, data, id)
                        [] data.type = "complete" -> Complete(rl)
                        [] OTHER -> rl

RECURSIVE ProcessLines(_, _, _)
ProcessLines(rl, lines, id) ==
    IF lines = <<>> THEN rl
    ELSE ProcessLines(ProcessLine(rl, Head(lines), id), Tail(lines), id)

\* one turn of  while (true): decode the bytes read, split, process
ProcessRead(rl, value, id) == ProcessLines(rl, split(value), id)

\* ------------------------------------------------------------------------
\* Bounds and the inputs the environment draws from
\* ------------------------------------------------------------------------
\* calls the user makes (send, switch, delete, create, refresh) in one run
MaxCalls == 2
\* lines in the body of one POST /chat response of StreamSpec
MaxLines == 2

ConversationIds == {"c1", "c2"}
\* conversation_id values POST /conversations returns: fresh ids
CreatedIds == {"c3"}
Agents == {"MathAgent"}

\* what the user types
Inputs == {<<>>, <<" ">>, <<"h">>}

\* Date.now() between two calls: the same millisecond, the next, a later one
Ticks == {0, 1, 2}

\* HTTP statuses of a response
Statuses == {200, 400, 404, 500, 503}
ok(status) == status >= 200 /\ status <= 299

\* the message of the TypeError a rejected fetch or read carries (set by
\* the browser, not by this code)
NetworkErrors == {"Failed to fetch"}

\* the lines a chat stream is made of
StreamLines ==
    {DataLine(Frame("chunk", <<"a">>, "MathAgent", Undefined)),
     DataLine(Frame("chunk", <<"b">>, Undefined, Undefined)),
     DataLine(Frame("chunk", <<>>, "MathAgent", Undefined)),
     DataLine(FrameNoData("chunk")),
     DataLine(Frame("agent_selection", <<>>, "MathAgent", "c1")),
     DataLine(Frame("agent_selection", <<>>, Undefined, "c2")),
     DataLine(Frame("agent_selection", <<>>, Undefined, Undefined)),
     DataLine(FrameNoData("agent_selection")),
     DataLine(Frame("complete", <<>>, Undefined, Undefined)),
     DataLine(Frame("ping", <<"a">>, "MathAgent", "c1")),
     DoneLine, JunkLine, TextLine}

\* the server writes each line followed by a newline
RECURSIVE BodiesOf(_, _)
BodiesOf(lines, n) ==
    IF n = 0 THEN {<<>>}
    ELSE LET shorter == BodiesOf(lines, n - 1)
         IN  shorter \cup {b \o l \o <<NL>> : b \in shorter, l \in lines}

StreamBodies == BodiesOf(StreamLines, MaxLines)

\* the lines and bodies of StreamFairSpec: chunks with and without an
\* agent, a selection, the end of the answer and a line that does not parse
FairLines ==
    {DataLine(Frame("chunk", <<"a">>, "MathAgent", Undefined)),
     DataLine(Frame("chunk", <<"b">>, Undefined, Undefined)),
     DataLine(Frame("agent_selection", <<>>, "MathAgent", "c1")),
     DataLine(Frame("complete", <<>>, Undefined, Undefined)),
     JunkLine}

FairBodies == BodiesOf(FairLines, MaxLines)

\* the bodies of Spec, where sends run beside the other operations
ChatBodies ==
    {DataLine(Frame("agent_selection", <<>>, "MathAgent", "c1")) \o <<NL>>
        \o DataLine(Frame("chunk", <<"a">>, Undefined, Undefined)) \o <<NL>>,
     DataLine(Frame("complete", <<>>, Undefined, Undefined)) \o <<NL>>}

\* the statuses of Spec
ChatStatuses == {404, 503}

\* ------------------------------------------------------------------------
\* State
\* ------------------------------------------------------------------------
VARIABLES
    state,          \* ChatState, the value held by useReducer
    cookie,         \* the conversation_id cookie
    now,            \* Date.now()
    mounted,        \* ChatBoxContent's mount effect has run
    ops,            \* the calls made so far, each with its position
    listRequests    \* GET /conversations requests in flight

vars == <<state, cookie, now, mounted, ops, listRequests>>

\* One call.  pc is the await it is suspended at ("done": returned); the
\* other fields are its arguments and locals, and what the model records
\* about it: body (the whole response body), dispatched (the actions its
\* read loop dispatched), cut (a read ended inside a line), outcome (how its
\* request ended), quiet (no other call was running when it was made).
NewOp(kind, pc) ==
    [kind |-> kind, pc |-> pc,
     conversationId |-> Null,
     closureConversationId |-> Null,
     userMessageId |-> 0,
     loadingMessageId |-> 0,
     accumulatedContent |-> <<>>,
     rest |-> <<>>,
     body |-> <<>>,
     dispatched |-> <<>>,
     status |-> 0,
     cut |-> FALSE,
     outcome |-> "pending",
     quiet |-> \A i \in 1..Len(ops) : ops[i].pc = "done"]

UserCalls == Cardinality({i \in 1..Len(ops) : ops[i].kind # "mount"})  \* the mount effect's history load is no user call

Init ==
    /\ state = initialState
    /\ cookie \in {Undefined, "c1"}
    /\ now = 0
    /\ mounted = FALSE
    /\ ops = <<>>
    /\ listRequests = 0

\* ------------------------------------------------------------------------
\* useChat
\* ------------------------------------------------------------------------
\* setInputValue, called by the textarea's onChange
SetInputValue(v) ==
    /\ mounted
    /\ state.inputValue # v
    /\ state' = chatReducer(state, Action("SET_INPUT_VALUE", v))
    /\ UNCHANGED <<cookie, now, mounted, ops, listRequests>>

\* A Message.  isLoading is optional in the source: FALSE stands for an
\* absent isLoading as well (the code only ever tests it for truth).
Message(id, content, sender, isLoading) ==
    [id |-> id, content |-> content, sender |-> sender,
     isLoading |-> isLoading, agent |-> Undefined]

\* sendMessage(messageContent), up to its first await.  The id of a message is
\* the decimal string of a clock value; the model keeps the number.  ticks
\* are the milliseconds that may have passed since the last Date.now().
SendMessage(messageContent, ticks) ==
    /\ mounted
    /\ UserCalls < MaxCalls
    /\ LET content == messageContent
       IN  IF trim(messageContent) = <<>>
           THEN UNCHANGED vars
           ELSE \E d1 \in ticks, d2 \in {0, 1} :
                LET t1 == now + d1
                    t2 == t1 + d2
                    userMessage == Message(t1, content, "user", FALSE)
                    loadingMessage == Message(t2 + 1, <<>>, "assistant", TRUE)
                    s1 == chatReducer(state, Action("ADD_MESSAGE", userMessage))
                    s2 == chatReducer(s1, Action("SET_INPUT_VALUE", <<>>))
                    s3 == chatReducer(s2, Action("ADD_MESSAGE", loadingMessage))
                IN  /\ state' = s3
                    /\ now' = t2
                    /\ ops' = Append(ops, [NewOp("send", "fetch") EXCEPT
                                              !.userMessageId = userMessage.id,
                                              !.loadingMessageId = loadingMessage.id,
                                              !.conversationId = cookie])
                    /\ UNCHANGED <<cookie, mounted, listRequests>>

ErrNotFound == "Serviço não encontrado. Verifique se o servidor está rodando."
ErrServer == "Erro interno do servidor. Tente novamente mais tarde."
ErrRequest == "Erro na solicitação. Verifique os dados enviados."
ErrConnection == "Erro de conexão. Verifique sua conexão com a internet."
ErrNoReader == "No reader available"
ErrFallback ==
    "Desculpe, houve um erro ao processar sua solicitação. Por favor, tente novamente."

\* a mapping that tests the range 400..499 before the status 404
errorMessageRangeFirst(status) ==
    IF status >= 400 /\ status < 500 THEN ErrRequest
    ELSE IF status = 500 THEN ErrServer
    ELSE ErrConnection

\* if (!response.ok) { let errorMessage = ...; throw new Error(errorMessage) }
errorMessage(status) ==
    IF status = 404 THEN ErrNotFound
    ELSE IF status = 500 THEN ErrServer
    ELSE IF status >= 400 /\ status < 500 THEN ErrRequest
    ELSE ErrConnection

Error(message) == [instanceofError |-> TRUE, message |-> message]

\* a text holding the whole of a string constant
Text(string) == <<string>>

\* a catch that writes the error's text and leaves isLoading as it is
CatchContentOnly(st, loadingMessageId, error) ==
    chatReducer(st, UpdateMessage(loadingMessageId,
                                  [content |-> Text(error.message)]))

\* catch (error) { ... } of sendMessage
Catch(st, loadingMessageId, error) ==
    LET errorContent == IF error.instanceofError THEN error.message ELSE ErrFallback
    IN  chatReducer(st, UpdateMessage(loadingMessageId,
                                      [content |-> Text(errorContent),
                                       isLoading |-> FALSE]))

Fetching(k) == k \in 1..Len(ops) /\ ops[k].kind = "send" /\ ops[k].pc = "fetch"
Reading(k) == k \in 1..Len(ops) /\ ops[k].kind = "send" /\ ops[k].pc = "read"

\* await fetch(`${API_URL}/chat`) rejects: no HTTP response exists
ChatRejected(k) ==
    /\ Fetching(k)
    /\ \E m \in NetworkErrors :
         state' = Catch(state, ops[k].loadingMessageId, Error(m))
    /\ ops' = [ops EXCEPT ![k].pc = "done", ![k].outcome = "rejected"]
    /\ UNCHANGED <<cookie, now, mounted, listRequests>>

\* the response has a status outside 200..299
ChatStatus(k, statuses) ==
    /\ Fetching(k)
    /\ \E status \in statuses :
         /\ ~ok(status)
         /\ state' = Catch(state, ops[k].loadingMessageId, Error(errorMessage(status)))
         /\ ops' = [ops EXCEPT ![k].pc = "done", ![k].outcome = "status",
                               ![k].status = status]
    /\ UNCHANGED <<cookie, now, mounted, listRequests>>

\* response.ok, and response.body is null: throw new Error('No reader available')
ChatNoBody(k) ==
    /\ Fetching(k)
    /\ \E status \in Statuses :
         /\ ok(status)
         /\ state' = Catch(state, ops[k].loadingMessageId, Error(ErrNoReader))
         /\ ops' = [ops EXCEPT ![k].pc = "done", ![k].outcome = "nobody",
                               ![k].status = status]
    /\ UNCHANGED <<cookie, now, mounted, listRequests>>

\* a response that leaves the placeholder loading
ChatStreamKeepsLoading(k, bodies) ==
    /\ Fetching(k)
    /\ \E status \in Statuses, b \in bodies :
         /\ ok(status)
         /\ ops' = [ops EXCEPT ![k].pc = "read", ![k].status = status,
                               ![k].accumulatedContent = <<>>,
                               ![k].rest = b, ![k].body = b]
    /\ state' = chatReducer(state, UpdateMessage(ops[k].loadingMessageId,
                                                 [content |-> <<>>]))
    /\ UNCHANGED <<cookie, now, mounted, listRequests>>

\* response.ok with a body: accumulatedContent = '', the placeholder leaves
\* its loading display, and the loop awaits its first read
ChatStream(k, bodies) ==
    /\ Fetching(k)
    /\ \E status \in Statuses, b \in bodies :
         /\ ok(status)
         /\ ops' = [ops EXCEPT ![k].pc = "read", ![k].status = status,
                               ![k].accumulatedContent = <<>>,
                               ![k].rest = b, ![k].body = b]
    /\ state' = chatReducer(state, UpdateMessage(ops[k].loadingMessageId,
                                                 [isLoading |-> FALSE, content |-> <<>>]))
    /\ UNCHANGED <<cookie, now, mounted, listRequests>>

\* the first n bytes of rest end inside a line: neither at a newline nor
\* just before one
EndsInsideLine(rest, n) ==
    /\ n < Len(rest)
    /\ rest[n] # NL
    /\ rest[n + 1] # NL

\* await reader.read() gives { done: false, value }: value is however many
\* of the unread bytes the transport hands over
Read(k) ==
    /\ Reading(k)
    /\ ops[k].rest # <<>>
    /\ \E n \in 1..Len(ops[k].rest) :
         LET value == SubSeq(ops[k].rest, 1, n)
             rl == ProcessRead([state |-> state,
                                accumulatedContent |-> ops[k].accumulatedContent,
                                listRequests |-> listRequests,
                                dispatched |-> ops[k].dispatched],
                               value, ops[k].loadingMessageId)
         IN  /\ state' = rl.state
             /\ listRequests' = rl.listRequests
             /\ ops' = [ops EXCEPT ![k].accumulatedContent = rl.accumulatedContent,
                                   ![k].dispatched = rl.dispatched,
                                   ![k].cut = @ \/ EndsInsideLine(ops[k].rest, n),
                                   ![k].rest = SubSeq(ops[k].rest, n + 1, Len(ops[k].rest))]
    /\ UNCHANGED <<cookie, now, mounted>>

\* await reader.read() gives { done: true }: break, and sendMessage returns
ReadDone(k) ==
    /\ Reading(k)
    /\ ops[k].rest = <<>>
    /\ ops' = [ops EXCEPT ![k].pc = "done", ![k].outcome = "ok"]
    /\ UNCHANGED <<state, cookie, now, mounted, listRequests>>

\* await reader.read() rejects (the connection drops part-way)
ReadError(k) ==
    /\ Reading(k)
    /\ \E m \in NetworkErrors :
         state' = Catch(state, ops[k].loadingMessageId, Error(m))
    /\ ops' = [ops EXCEPT ![k].pc = "done", ![k].outcome = "readerror",
                          ![k].rest = <<>>]
    /\ UNCHANGED <<cookie, now, mounted, listRequests>>

\* ------------------------------------------------------------------------
\* useConversations
\* ------------------------------------------------------------------------
\* the backend's answers
ConversationInfo(id) == [conversation_id |-> id]

ConversationLists ==
    {<<ConversationInfo("c2")>>,
     <<ConversationInfo("c1"), ConversationInfo("c2")>>}

\* a record of GET history; backend ids are named by negative numbers
HistoryRecord(id, sender, content, agent) ==
    [id |-> id, sender |-> sender, content |-> content, agent |-> agent]

Histories ==
    {<<>>,
     <<HistoryRecord(-1, "user", <<"q">>, Undefined),
       HistoryRecord(-2, "assistant", <<"r">>, "MathAgent")>>}

ListedIds == {state.conversations[i].conversation_id : i \in 1..Len(state.conversations)}

Awaiting(k, pc) == k \in 1..Len(ops) /\ ops[k].pc = pc

\* loadUserConversations(): the request is issued at once
\* (the user's refresh button calls it directly)
LoadUserConversations ==
    /\ mounted
    /\ UserCalls < MaxCalls
    /\ listRequests' = listRequests + 1
    /\ ops' = Append(ops, [NewOp("refresh", "done") EXCEPT !.outcome = "ok"])
    /\ UNCHANGED <<state, cookie, now, mounted>>

\* a response whose list is added to the one already held
ListLoadedMerges ==
    /\ listRequests > 0
    /\ listRequests' = listRequests - 1
    /\ \E conversations \in ConversationLists :
         state' = chatReducer(state, Action("SET_CONVERSATIONS",
                                            state.conversations \o conversations))
    /\ UNCHANGED <<cookie, now, mounted, ops>>

\* GET /conversations resolves with response.ok
ListLoaded ==
    /\ listRequests > 0
    /\ listRequests' = listRequests - 1
    /\ \E conversations \in ConversationLists :
         state' = chatReducer(state, Action("SET_CONVERSATIONS", conversations))
    /\ UNCHANGED <<cookie, now, mounted, ops>>

\* GET /conversations rejects or has a status that is not ok
ListFailed ==
    /\ listRequests > 0
    /\ listRequests' = listRequests - 1
    /\ UNCHANGED <<state, cookie, now, mounted, ops>>

\* loadConversationHistory(conversationId), up to its await
LoadHistoryStart(st) == chatReducer(st, Action("SET_LOADING_HISTORY", TRUE))

\* no finally block
NoFinally(st) == st

\* the finally block
LoadHistoryFinally(st) == chatReducer(st, Action("SET_LOADING_HISTORY", FALSE))

\* a mapping that gives the records newest first
historyMessagesReversed(messages) ==
    [i \in 1..Len(messages) |->
        [id |-> messages[Len(messages) + 1 - i].id,
         content |-> messages[Len(messages) + 1 - i].content,
         sender |-> messages[Len(messages) + 1 - i].sender, isLoading |-> FALSE,
         agent |-> messages[Len(messages) + 1 - i].agent]]

\* data.messages.map(msg => ({ id, content, sender, timestamp, agent, metadata }))
historyMessages(messages) ==
    [i \in 1..Len(messages) |->
        [id |-> messages[i].id, content |-> messages[i].content,
         sender |-> messages[i].sender, isLoading |-> FALSE,
         agent |-> messages[i].agent]]

\* the await loadConversationHistory is suspended at resolves or rejects:
\* the call returns to switchConversation, or ends (the mount effect's call)
AfterHistory(k, outcome) ==
    [ops EXCEPT ![k].pc = IF ops[k].kind = "switch" THEN "return" ELSE "done",
                ![k].outcome = outcome]

\* response.ok and a body of the agreed shape
HistoryLoaded(k) ==
    /\ Awaiting(k, "history")
    /\ \E messages \in Histories :
         LET s1 == chatReducer(state, Action("SET_MESSAGES", historyMessages(messages)))
             s2 == chatReducer(s1, Action("SET_CURRENT_CONVERSATION_ID",
                                          ops[k].conversationId))
         IN  state' = LoadHistoryFinally(s2)
    /\ ops' = AfterHistory(k, "ok")
    /\ UNCHANGED <<cookie, now, mounted, listRequests>>

\* a failure that empties the list of messages
HistoryFailedResets(k) ==
    /\ Awaiting(k, "history")
    /\ state' = LoadHistoryFinally(chatReducer(state, Action("RESET_MESSAGES", Null)))
    /\ ops' = AfterHistory(k, "failed")
    /\ UNCHANGED <<cookie, now, mounted, listRequests>>

\* the fetch rejects, the status is not ok, or the body is not of the agreed
\* shape (response.json() rejects, data.messages.map throws): catch, finally
HistoryFailed(k) ==
    /\ Awaiting(k, "history")
    /\ state' = LoadHistoryFinally(state)
    /\ ops' = AfterHistory(k, "failed")
    /\ UNCHANGED <<cookie, now, mounted, listRequests>>

\* an effect that loads the history whether or not an id is stored
MountAlwaysLoads ==
    /\ ~mounted
    /\ mounted' = TRUE
    /\ listRequests' = listRequests + 1
    /\ state' = LoadHistoryStart(state)
    /\ ops' = Append(ops, [NewOp("mount", "history") EXCEPT !.conversationId = cookie])
    /\ UNCHANGED <<cookie, now>>

\* ChatBoxContent's mount effect
Mount ==
    /\ ~mounted
    /\ mounted' = TRUE
    /\ listRequests' = listRequests + 1
    /\ LET conversationId == cookie
       IN  IF Truthy(conversationId)
           THEN /\ state' = LoadHistoryStart(state)
                /\ ops' = Append(ops, [NewOp("mount", "history") EXCEPT
                                          !.conversationId = conversationId])
           ELSE UNCHANGED <<state, ops>>
    /\ UNCHANGED <<cookie, now>>

\* a test no listed conversation passes
NeverActive(conversationId) == conversationId = Undefined

\* if (conversationId === state.currentConversationId) return;
AlreadyActive(conversationId) == conversationId = state.currentConversationId

\* switchConversation(conversationId), up to its await
SwitchConversation(conversationId) ==
    /\ mounted
    /\ UserCalls < MaxCalls
    /\ conversationId \in ListedIds
    /\ IF AlreadyActive(conversationId)
       THEN /\ ops' = Append(ops, [NewOp("switch", "done") EXCEPT
                                      !.conversationId = conversationId,
                                      !.closureConversationId = state.currentConversationId,
                                      !.outcome = "same"])
            /\ UNCHANGED <<state, cookie>>
       ELSE /\ cookie' = conversationId
            /\ state' = LoadHistoryStart(state)
            /\ ops' = Append(ops, [NewOp("switch", "history") EXCEPT
                                      !.conversationId = conversationId,
                                      !.closureConversationId = state.currentConversationId])
    /\ UNCHANGED <<now, mounted, listRequests>>

\* a return that leaves the sidebar as it is
SwitchReturnKeepsSidebar(k) ==
    /\ Awaiting(k, "return")
    /\ ops[k].kind = "switch"
    /\ ops' = [ops EXCEPT ![k].pc = "done"]
    /\ UNCHANGED <<state, cookie, now, mounted, listRequests>>

\* switchConversation after  await loadConversationHistory(conversationId)
SwitchReturn(k) ==
    /\ Awaiting(k, "return")
    /\ ops[k].kind = "switch"
    /\ state' = chatReducer(state, Action("SET_SHOW_SIDEBAR", FALSE))
    /\ ops' = [ops EXCEPT ![k].pc = "done"]
    /\ UNCHANGED <<cookie, now, mounted, listRequests>>

\* createNewConversation(), up to its await
CreateNewConversation ==
    /\ mounted
    /\ UserCalls < MaxCalls
    /\ ops' = Append(ops, NewOp("create", "create"))
    /\ UNCHANGED <<state, cookie, now, mounted, listRequests>>

\* the await createNewConversation is suspended at resolves or rejects: the
\* call returns to deleteConversation, or ends
AfterCreate(k, outcome) ==
    [ops EXCEPT ![k].pc = IF ops[k].kind = "delete" THEN "return" ELSE "done",
                ![k].outcome = outcome]

\* a success that keeps the messages of the conversation left
CreatedKeepsMessages(k) ==
    /\ Awaiting(k, "create")
    /\ \E conversation_id \in CreatedIds :
         state' = chatReducer(state, Action("SET_CURRENT_CONVERSATION_ID",
                                            conversation_id))
    /\ listRequests' = listRequests + 1
    /\ ops' = AfterCreate(k, "ok")
    /\ UNCHANGED <<cookie, now, mounted>>

\* POST /conversations resolves with response.ok
Created(k) ==
    /\ Awaiting(k, "create")
    /\ \E conversation_id \in CreatedIds :
         LET s1 == chatReducer(state, Action("SET_CURRENT_CONVERSATION_ID",
                                             conversation_id))
         IN  state' = chatReducer(s1, Action("RESET_MESSAGES", Null))
    /\ listRequests' = listRequests + 1
    /\ ops' = AfterCreate(k, "ok")
    /\ UNCHANGED <<cookie, now, mounted>>

\* POST /conversations rejects or has a status that is not ok
CreateFailed(k) ==
    /\ Awaiting(k, "create")
    /\ ops' = AfterCreate(k, "create-failed")
    /\ UNCHANGED <<state, cookie, now, mounted, listRequests>>

\* deleteConversation(conversationId), up to its await.  The callback closes
\* over the state.currentConversationId of the render it was made in.
DeleteConversation(conversationId) ==
    /\ mounted
    /\ UserCalls < MaxCalls
    /\ conversationId \in ListedIds
    /\ ops' = Append(ops, [NewOp("delete", "delete") EXCEPT
                              !.conversationId = conversationId,
                              !.closureConversationId = state.currentConversationId])
    /\ UNCHANGED <<state, cookie, now, mounted, listRequests>>

\* DELETE resolves with response.ok
Deleted(k) ==
    /\ Awaiting(k, "delete")
    /\ IF ops[k].conversationId = ops[k].closureConversationId
       THEN /\ ops' = [ops EXCEPT ![k].pc = "create"]
            /\ UNCHANGED listRequests
       ELSE /\ listRequests' = listRequests + 1
            /\ ops' = [ops EXCEPT ![k].pc = "done", ![k].outcome = "ok"]
    /\ UNCHANGED <<state, cookie, now, mounted>>

\* a failure that refreshes the list all the same
DeleteFailedRefreshes(k) ==
    /\ Awaiting(k, "delete")
    /\ listRequests' = listRequests + 1
    /\ ops' = [ops EXCEPT ![k].pc = "done", ![k].outcome = "delete-failed"]
    /\ UNCHANGED <<state, cookie, now, mounted>>

\* DELETE rejects or has a status that is not ok
DeleteFailed(k) ==
    /\ Awaiting(k, "delete")
    /\ ops' = [ops EXCEPT ![k].pc = "done", ![k].outcome = "delete-failed"]
    /\ UNCHANGED <<state, cookie, now, mounted, listRequests>>

\* deleteConversation after  await createNewConversation()
DeleteReturn(k) ==
    /\ Awaiting(k, "return")
    /\ ops[k].kind = "delete"
    /\ listRequests' = listRequests + 1
    /\ ops' = [ops EXCEPT ![k].pc = "done"]
    /\ UNCHANGED <<state, cookie, now, mounted>>

\* SidebarToggle's toggleSidebar
ToggleSidebar ==
    /\ mounted
    /\ state' = chatReducer(state, Action("SET_SHOW_SIDEBAR", ~state.showSidebar))
    /\ UNCHANGED <<cookie, now, mounted, ops, listRequests>>

\* the steps of the sends: the answers to POST /chat and the reads
SendSteps(bodies, statuses) ==
    \/ \E k \in 1..Len(ops) : ChatRejected(k)
    \/ \E k \in 1..Len(ops) : ChatStatus(k, statuses)
    \/ \E k \in 1..Len(ops) : ChatNoBody(k)
    \/ \E k \in 1..Len(ops) : ChatStream(k, bodies)
    \/ \E k \in 1..Len(ops) : Read(k)
    \/ \E k \in 1..Len(ops) : ReadDone(k)
    \/ \E k \in 1..Len(ops) : ReadError(k)

\* ------------------------------------------------------------------------
\* StreamSpec: one send on a mounted client, no other operation beside it
\* ------------------------------------------------------------------------
StreamInit ==
    /\ \E c \in {Null, "c1"} :
         state = [initialState EXCEPT !.currentConversationId = c]
    /\ cookie = Undefined
    /\ now = 0
    /\ mounted = TRUE
    /\ ops = <<>>
    /\ listRequests = 0

\* the clock's origin is the first send
NoSendYet == \A i \in 1..Len(ops) : ops[i].kind # "send"

StreamNext ==
    \/ ops = <<>> /\ \E v \in Inputs : SetInputValue(v)
    \/ ops = <<>> /\ SendMessage(state.inputValue, {0})
    \/ SendSteps(StreamBodies, Statuses)

StreamSpec == StreamInit /\ [][StreamNext]_vars

\* One send whose request gets its answer and whose stream comes to its end
\* or fails: the awaits of sendMessage settle
StreamFairNext ==
    \/ ops = <<>> /\ \E v \in Inputs : SetInputValue(v)
    \/ ops = <<>> /\ SendMessage(state.inputValue, {0})
    \/ SendSteps(FairBodies, Statuses)

StreamFairSpec ==
    StreamInit /\ [][StreamFairNext]_vars /\ WF_vars(SendSteps(FairBodies, Statuses))

\* ------------------------------------------------------------------------
\* Spec: the whole client, every operation beside every other
\* ------------------------------------------------------------------------
\* the answers to GET /conversations and GET history
LoadSteps ==
    \/ ListLoaded
    \/ ListFailed
    \/ \E k \in 1..Len(ops) : HistoryLoaded(k)
    \/ \E k \in 1..Len(ops) : HistoryFailed(k)

\* the calls of useConversations and their steps
ConversationSteps ==
    \/ LoadUserConversations
    \/ CreateNewConversation
    \/ \E id \in ConversationIds : SwitchConversation(id)
    \/ \E id \in ConversationIds : DeleteConversation(id)
    \/ \E k \in 1..Len(ops) : SwitchReturn(k)
    \/ \E k \in 1..Len(ops) : Created(k)
    \/ \E k \in 1..Len(ops) : CreateFailed(k)
    \/ \E k \in 1..Len(ops) : Deleted(k)
    \/ \E k \in 1..Len(ops) : DeleteFailed(k)
    \/ \E k \in 1..Len(ops) : DeleteReturn(k)

Send ==
    \E messageContent \in Inputs :
        SendMessage(messageContent, IF NoSendYet THEN {0} ELSE Ticks)

Next ==
    \/ Mount
    \/ LoadSteps
    \/ ConversationSteps
    \/ Send
    \/ SendSteps(ChatBodies, ChatStatuses)

Spec == Init /\ [][Next]_vars

\* ------------------------------------------------------------------------
\* ConversationsSpec: the operations of useConversations, no send
\* ------------------------------------------------------------------------
ConversationsNext ==
    \/ Mount
    \/ LoadSteps
    \/ ConversationSteps

ConversationsSpec == Init /\ [][ConversationsNext]_vars

\* ------------------------------------------------------------------------
\* SendsSpec: sends beside each other on a mounted client
\* ------------------------------------------------------------------------
\* the bodies and statuses of SendsSpec
SendBodies == {DataLine(Frame("chunk", <<"a">>, "MathAgent", Undefined)) \o <<NL>>}
SendStatuses == {404}

SendsNext ==
    \/ Send
    \/ SendSteps(SendBodies, SendStatuses)

SendsInit ==
    /\ state = initialState
    /\ cookie = Undefined
    /\ now = 0
    /\ mounted = TRUE
    /\ ops = <<>>
    /\ listRequests = 0

SendsSpec == SendsInit /\ [][SendsNext]_vars

\* ------------------------------------------------------------------------
\* ResumeSpec: the client starts, resuming the stored conversation if there
\* is one; the user sends one message and switches conversations while the
\* loads are still under way
\* ------------------------------------------------------------------------
ResumeNext ==
    \/ Mount
    \/ LoadSteps
    \/ NoSendYet /\ Send
    \/ SendSteps(SendBodies, SendStatuses)
    \/ \E id \in ConversationIds : SwitchConversation(id)
    \/ \E k \in 1..Len(ops) : SwitchReturn(k)

ResumeSpec == Init /\ [][ResumeNext]_vars

\* ------------------------------------------------------------------------
\* SidebarSpec: the user opens and closes the sidebar and switches
\* conversations from it
\* ------------------------------------------------------------------------
SidebarNext ==
    \/ Mount
    \/ LoadSteps
    \/ ToggleSidebar
    \/ \E id \in ConversationIds : SwitchConversation(id)
    \/ \E k \in 1..Len(ops) : SwitchReturn(k)

SidebarSpec == Init /\ [][SidebarNext]_vars

\* ------------------------------------------------------------------------
\* LateSpec: one send whose stream names its conversation, and switches of
\* conversation while that stream is still open
\* ------------------------------------------------------------------------
LateNext ==
    \/ Mount
    \/ LoadSteps
    \/ NoSendYet /\ Send
    \/ SendSteps(ChatBodies, ChatStatuses)
    \/ \E id \in ConversationIds : SwitchConversation(id)
    \/ \E k \in 1..Len(ops) : SwitchReturn(k)

LateSpec == Init /\ [][LateNext]_vars

\* ------------------------------------------------------------------------
\* What the properties below speak of
\* ------------------------------------------------------------------------
Ops(kind) == {k \in 1..Len(ops) : ops[k].kind = kind}

\* the messages of the list that carry the id of send k's placeholder
Placeholders(k) ==
    {i \in 1..Len(state.messages) : state.messages[i].id = ops[k].loadingMessageId}

\* the frames the server wrote into a body, in order: its well-formed
\* `data: ` lines
RECURSIVE FramesOfLines(_)
FramesOfLines(lines) ==
    IF lines = <<>> THEN <<>>
    ELSE LET line == Head(lines)
         IN  (IF startsWithData(line) /\ JSONParses(slice6(line))
              THEN <<JSONParse(slice6(line))>> ELSE <<>>)
             \o FramesOfLines(Tail(lines))

FramesOf(body) == FramesOfLines(split(body))

IsChunk(f) == f.type = "chunk" /\ f.hasData /\ f.content # <<>>

\* c1 .. cn: the contents of the chunk frames, in order
ChunkContents(frames) == 
    LET chunks == SelectSeq(frames, IsChunk)
    IN  [i \in 1..Len(chunks) |-> chunks[i].content]

\* <<c1, c1 c2, ..., c1 .. cn>>
RECURSIVE Prefixes(_, _)
Prefixes(contents, before) ==
    IF contents = <<>> THEN <<>>
    ELSE <<before \o Head(contents)>>
         \o Prefixes(Tail(contents), before \o Head(contents))

Concatenation(contents) ==
    IF contents = <<>> THEN <<>> ELSE Prefixes(contents, <<>>)[Len(contents)]

\* the contents the read loop dispatched, in order
HasContent(action) ==
    action.type = "UPDATE_MESSAGE" /\ "content" \in DOMAIN action.payload.updates

DispatchedContents(dispatched) ==
    LET updates == SelectSeq(dispatched, HasContent)
    IN  [i \in 1..Len(updates) |-> updates[i].payload.updates.content]

\* C1: for the chunk frames c1..cn of the body of one send, when the stream
\* has ended the placeholder's content is c1 c2 ... cn, and the contents
\* dispatched on the way are the prefixes c1, c1 c2, ..., in that order.
C1_ContentIsConcatenation ==
    \A k \in Ops("send") :
        ops[k].outcome = "ok" =>
            LET contents == ChunkContents(FramesOf(ops[k].body))
            IN  /\ \A i \in Placeholders(k) :
                     state.messages[i].content = Concatenation(contents)
                /\ DispatchedContents(ops[k].dispatched) = Prefixes(contents, <<>>)

\* the same, of the sends none of whose reads ended inside a line
C1_WholeLines ==
    \A k \in Ops("send") :
        ops[k].outcome = "ok" /\ ~ops[k].cut =>
            LET contents == ChunkContents(FramesOf(ops[k].body))
            IN  /\ \A i \in Placeholders(k) :
                     state.messages[i].content = Concatenation(contents)
                /\ DispatchedContents(ops[k].dispatched) = Prefixes(contents, <<>>)

\* the agent a placeholder is left with when an update that carries no agent
\* leaves it unchanged
RECURSIVE AgentKept(_, _)
AgentKept(dispatched, agent) ==
    IF dispatched = <<>> THEN agent
    ELSE LET action == Head(dispatched)
             named == /\ action.type = "UPDATE_MESSAGE"
                      /\ "agent" \in DOMAIN action.payload.updates
                      /\ Truthy(action.payload.updates.agent)
         IN  AgentKept(Tail(dispatched),
                       IF named THEN action.payload.updates.agent ELSE agent)

\* C2: a chunk frame that carries no agent leaves the placeholder's agent
\* unchanged: the placeholder's agent is the one the last frame that
\* carried an agent gave it.
C2_AgentUnchanged ==
    \A k \in Ops("send") :
        ops[k].pc = "read" \/ ops[k].outcome = "ok" =>
            \A i \in Placeholders(k) :
                state.messages[i].agent = AgentKept(ops[k].dispatched, Undefined)

\* what the read loop dispatches when the whole body arrives in one read
WholeBody(k) ==
    ProcessRead([state |-> initialState, accumulatedContent |-> <<>>,
                 listRequests |-> 0, dispatched |-> <<>>],
                ops[k].body, ops[k].loadingMessageId)

\* C3: the actions the read loop dispatches for a body are the same however
\* the transport cuts the body into reads.
C3_SplitIndependent ==
    \A k \in Ops("send") :
        ops[k].outcome = "ok" =>
            /\ ops[k].dispatched = WholeBody(k).dispatched
            /\ ops[k].accumulatedContent = WholeBody(k).accumulatedContent

\* the same, of the sends none of whose reads ended inside a line
C3_WholeLines ==
    \A k \in Ops("send") :
        ops[k].outcome = "ok" /\ ~ops[k].cut =>
            /\ ops[k].dispatched = WholeBody(k).dispatched
            /\ ops[k].accumulatedContent = WholeBody(k).accumulatedContent

\* the message the claim gives for a status
C4_Message(status) ==
    CASE status = 404 -> ErrNotFound
      [] status = 500 -> ErrServer
      [] status \in 400..499 \ {404} -> ErrRequest
      [] OTHER -> ErrConnection

\* C4: when POST /chat resolves with a status that is not a success, no
\* frame is parsed and the placeholder has isLoading false and the message
\* of that status as its content.
C4_StatusMessage ==
    \A k \in Ops("send") :
        ops[k].outcome = "status" =>
            /\ ops[k].dispatched = <<>>
            /\ ops[k].body = <<>>
            /\ Placeholders(k) # {}
            /\ \A i \in Placeholders(k) :
                 /\ state.messages[i].isLoading = FALSE
                 /\ state.messages[i].content = Text(C4_Message(ops[k].status))

C4_Witness ==
    \E k \in Ops("send") :
        /\ ops[k].outcome = "status"
        /\ ops[k].status = 400
        /\ \E i \in Placeholders(k) : state.messages[i].content = Text(ErrRequest)

\* C5: when the fetch of POST /chat rejects, the placeholder has isLoading
\* false and the connectivity-error message as its content.
C5_RejectedIsConnectionError ==
    \A k \in Ops("send") :
        ops[k].outcome = "rejected" =>
            \A i \in Placeholders(k) :
                /\ state.messages[i].isLoading = FALSE
                /\ state.messages[i].content = Text(ErrConnection)

IsSelection(f) == f.type = "agent_selection" /\ f.hasData
SelectsConversation(f) == IsSelection(f) /\ Truthy(f.conversation_id)

\* C6: an agent_selection frame with a non-empty conversation_id c sets
\* currentConversationId to c (after the stream, it is the c of the last
\* such frame); a stream whose frames are agent_selection frames and whose
\* last one carries an agent leaves the placeholder with that agent; a
\* stream of agent_selection frames with neither field dispatches nothing.
C6_SelectionApplied ==
    \A k \in Ops("send") :
        ops[k].outcome = "ok" =>
            LET frames == FramesOf(ops[k].body)
                selecting == SelectSeq(frames, SelectsConversation)
                last == frames[Len(frames)]
            IN  /\ selecting # <<>> =>
                     state.currentConversationId
                         = selecting[Len(selecting)].conversation_id
                /\ (/\ frames # <<>>
                    /\ \A j \in 1..Len(frames) : IsSelection(frames[j])
                    /\ Truthy(last.agent)) =>
                     \A i \in Placeholders(k) : state.messages[i].agent = last.agent
                /\ (\A j \in 1..Len(frames) :
                        /\ IsSelection(frames[j])
                        /\ ~Truthy(frames[j].conversation_id)
                        /\ ~Truthy(frames[j].agent)) =>
                     ops[k].dispatched = <<>>

\* the same, of the sends none of whose reads ended inside a line
C6_WholeLines ==
    \A k \in Ops("send") :
        ops[k].outcome = "ok" /\ ~ops[k].cut =>
            LET frames == FramesOf(ops[k].body)
                selecting == SelectSeq(frames, SelectsConversation)
                last == frames[Len(frames)]
            IN  /\ selecting # <<>> =>
                     state.currentConversationId
                         = selecting[Len(selecting)].conversation_id
                /\ (/\ frames # <<>>
                    /\ \A j \in 1..Len(frames) : IsSelection(frames[j])
                    /\ Truthy(last.agent)) =>
                     \A i \in Placeholders(k) : state.messages[i].agent = last.agent
                /\ (\A j \in 1..Len(frames) :
                        /\ IsSelection(frames[j])
                        /\ ~Truthy(frames[j].conversation_id)
                        /\ ~Truthy(frames[j].agent)) =>
                     ops[k].dispatched = <<>>

\* deleteConversation(activeId), called while activeId was the active
\* conversation, has completed and its DELETE request had succeeded
DeletedActive(k) ==
    /\ ops[k].kind = "delete"
    /\ ops[k].pc = "done"
    /\ ops[k].outcome # "delete-failed"
    /\ ops[k].conversationId = ops[k].closureConversationId

\* C7: once deleteConversation(activeId), called while activeId was the
\* active conversation, has completed with a successful DELETE,
\* currentConversationId is different from activeId.
C7_DeletedIsNotActive ==
    \A k \in 1..Len(ops) :
        DeletedActive(k) => state.currentConversationId # ops[k].conversationId

\* the same, of the calls whose POST /conversations succeeded, as long as
\* no later call has been made
C7_WhenCreated ==
    \A k \in 1..Len(ops) :
        DeletedActive(k) /\ ops[k].outcome = "ok" /\ k = Len(ops) /\ ops[k].quiet =>
            state.currentConversationId # ops[k].conversationId

\* two consecutive calls of switchConversation with the same id, the id not
\* active before the first; the second made when the first had completed
Twice(k) ==
    /\ k + 1 \in 1..Len(ops)
    /\ ops[k].kind = "switch" /\ ops[k + 1].kind = "switch"
    /\ ops[k].conversationId = ops[k + 1].conversationId
    /\ ops[k].outcome # "same"
    /\ ops[k + 1].quiet

\* C8: of two consecutive calls of switchConversation with the same id, the
\* second is a no-op: it sends no request, writes no cookie, dispatches
\* nothing.
C8_SecondIsNoOp ==
    \A k \in 1..Len(ops) : Twice(k) => ops[k + 1].outcome = "same"

\* C8, amended: the second call is a no-op provided the history load of the
\* first succeeded and nothing else was running during either call.
C8_SecondIsNoOpAfterLoad ==
    \A k \in 1..Len(ops) :
        Twice(k) /\ ops[k].quiet /\ ops[k].outcome = "ok" =>
            /\ ops[k + 1].outcome = "same"
            /\ ops[k + 1].pc = "done"

C8_Witness ==
    \E k \in 1..Len(ops) :
        /\ Twice(k) /\ ops[k].quiet /\ ops[k].outcome = "ok"
        /\ ops[k + 1].outcome = "same"
        /\ state.currentConversationId = ops[k].conversationId

Loading(os) == {k \in 1..Len(os) : os[k].pc = "history"}

\* C9: a call of loadConversationHistory sets isLoadingHistory before its
\* request; on whichever path it ends it sets isLoadingHistory to false, so
\* with no history load running isLoadingHistory is false.
C9_LoadingHistoryFlag ==
    [][/\ Loading(ops') \ Loading(ops) # {} => state'.isLoadingHistory
       /\ Loading(ops) \ Loading(ops') # {} => ~state'.isLoadingHistory
       /\ Loading(ops') = {} => ~state'.isLoadingHistory]_vars

C9_Witness ==
    /\ \E k \in 1..Len(ops) : ops[k].outcome = "failed"
    /\ \E k \in 1..Len(ops) : ops[k].kind = "switch" /\ ops[k].outcome = "ok"
    /\ Loading(ops) = {}
    /\ ~state.isLoadingHistory

LoadingMessages == {i \in 1..Len(state.messages) : state.messages[i].isLoading = TRUE}

Assistant == {i \in 1..Len(state.messages) : state.messages[i].sender = "assistant"}

InFlight(k) == ops[k].kind = "send" /\ ops[k].pc # "done"

\* C10: for each in-flight send at most one message is loading, and a
\* loading message is the most recently appended assistant message.
C10_OneLoadingAndLast ==
    /\ \A k \in 1..Len(ops) :
         InFlight(k) =>
            Cardinality({i \in LoadingMessages :
                            state.messages[i].id = ops[k].loadingMessageId}) <= 1
    /\ \A i \in LoadingMessages :
         i \in Assistant /\ \A j \in Assistant : j <= i

AwaitingResponse == {k \in 1..Len(ops) : Fetching(k)}

\* C10, amended: a loading message is the assistant placeholder of a send
\* that still awaits the response of POST /chat; there are no more loading
\* messages than such sends; and when the only such send is the one made
\* last, a loading message is the last message of the list.
C10_LoadingIsAwaiting ==
    /\ \A i \in LoadingMessages :
         /\ i \in Assistant
         /\ \E k \in AwaitingResponse :
              state.messages[i].id = ops[k].loadingMessageId
    /\ Cardinality(LoadingMessages) <= Cardinality(AwaitingResponse)
    /\ AwaitingResponse = {Len(ops)} =>
         \A i \in LoadingMessages : i = Len(state.messages)

C10_Witness ==
    /\ Cardinality(AwaitingResponse) = 2
    /\ Cardinality(LoadingMessages) = 2
    /\ \E i, j \in LoadingMessages : state.messages[i].id # state.messages[j].id

\* C11: no two entries of messages have the same id, whatever the number
\* of sends and however close in time they start.
C11_UniqueIds ==
    \A i, j \in 1..Len(state.messages) :
        state.messages[i].id = state.messages[j].id => i = j

\* a step in which send k takes one read of its body
ReadStep(k) ==
    /\ ops[k].kind = "send"
    /\ ops[k].pc = "read" /\ ops'[k].pc = "read"
    /\ Len(ops'[k].rest) < Len(ops[k].rest)

\* the bytes that read handed over
ValueRead(k) == SubSeq(ops[k].rest, 1, Len(ops[k].rest) - Len(ops'[k].rest))

\* the Store state, the running buffer, the list requests issued and the
\* actions dispatched, before and after the step
Before(k) ==
    [state |-> state, accumulatedContent |-> ops[k].accumulatedContent,
     listRequests |-> listRequests, dispatched |-> ops[k].dispatched]

After(k) ==
    [state |-> state', accumulatedContent |-> ops'[k].accumulatedContent,
     listRequests |-> listRequests', dispatched |-> ops'[k].dispatched]

NotDone(line) == line # DoneLine

\* C12: a line `data: [DONE]` never changes state: a read leaves the Store
\* state, the running buffer and the requests issued as the same read
\* without its [DONE] lines does, so the frames after one are processed.
C12_DoneChangesNothing ==
    [][\A k \in 1..Len(ops) :
          ReadStep(k) =>
              After(k) = ProcessLines(Before(k),
                                      SelectSeq(split(ValueRead(k)), NotDone),
                                      ops[k].loadingMessageId)]_vars

C12_Witness ==
    \E k \in Ops("send") :
        /\ ops[k].outcome = "ok"
        /\ ~ops[k].cut
        /\ split(ops[k].body)[1] = DoneLine
        /\ DispatchedContents(ops[k].dispatched) # <<>>

KnownTypes == {"agent_selection", "chunk", "complete"}

\* a line to be ignored: no `data: ` prefix, or a frame of no known type
Foreign(line) ==
    \/ ~startsWithData(line)
    \/ /\ JSONParses(slice6(line))
       /\ JSONParse(slice6(line)).type \notin KnownTypes

NotForeign(line) == ~Foreign(line)

\* C13: a frame of no known type, and a line without the prefix `data: `,
\* change nothing: a read has the effect of the same read without them, and
\* a read of such lines only dispatches nothing and issues no request.
C13_ForeignChangesNothing ==
    [][\A k \in 1..Len(ops) :
          ReadStep(k) =>
              /\ After(k) = ProcessLines(Before(k),
                                         SelectSeq(split(ValueRead(k)), NotForeign),
                                         ops[k].loadingMessageId)
              /\ (\A i \in 1..Len(split(ValueRead(k))) :
                     Foreign(split(ValueRead(k))[i])) => After(k) = Before(k)]_vars

C13_Witness ==
    \E k \in Ops("send") :
        /\ ops[k].outcome = "ok"
        /\ ~ops[k].cut
        /\ split(ops[k].body)[1] = DataLine(Frame("ping", <<"a">>, "MathAgent", "c1"))
        /\ split(ops[k].body)[2] = TextLine
        /\ ops[k].dispatched = <<>>
        /\ state.currentConversationId = Null

\* a `data: ` line whose payload is not JSON, or is a chunk or
\* agent_selection frame without its data object
Bad(line) ==
    /\ startsWithData(line)
    /\ line # DoneLine
    /\ \/ ~JSONParses(slice6(line))
       \/ /\ JSONParse(slice6(line)).type \in {"agent_selection", "chunk"}
          /\ ~JSONParse(slice6(line)).hasData

NotBad(line) == ~Bad(line)

\* C14: a `data: ` line that cannot be parsed, or lacks its data object,
\* changes no state and does not end the stream: a read has the effect of
\* the same read without that line, and the send goes on reading.
C14_BadLineSkipped ==
    [][\A k \in 1..Len(ops) :
          ReadStep(k) =>
              /\ After(k) = ProcessLines(Before(k),
                                         SelectSeq(split(ValueRead(k)), NotBad),
                                         ops[k].loadingMessageId)
              /\ ops'[k].outcome = "pending"]_vars

C14_Witness ==
    \E k \in Ops("send") :
        /\ ops[k].outcome = "ok"
        /\ ~ops[k].cut
        /\ split(ops[k].body)[1] = JunkLine
        /\ DispatchedContents(ops[k].dispatched) = << <<"a">> >>
        /\ \A i \in Placeholders(k) : state.messages[i].content = <<"a">>

\* what a record and a message have in common
Kept(m) == [id |-> m.id, sender |-> m.sender, content |-> m.content]

KeptAll(messages) == [i \in 1..Len(messages) |-> Kept(messages[i])]

\* the response of the model that holds records
StoredHistory ==
    <<[id |-> -1, sender |-> "user", content |-> <<"q">>],
      [id |-> -2, sender |-> "assistant", content |-> <<"r">>]>>

Ids(messages) == {messages[i].id : i \in 1..Len(messages)}

\* a step of send k after its request was issued
SendActs(k) ==
    /\ ops[k].kind = "send"
    /\ ops[k].pc \in {"fetch", "read"}
    /\ ops'[k] # ops[k]

\* updates as sendMessage dispatches them
SomeUpdates ==
    {[isLoading |-> FALSE, content |-> <<>>],
     [agent |-> "MathAgent"],
     [content |-> <<"a">>, agent |-> Undefined],
     [content |-> Text(ErrNotFound), isLoading |-> FALSE]}

\* C15: UpdateMessage with an id that no message of the list has is a
\* no-op: every step a send takes while its placeholder is not in the list
\* leaves messages and every other field as they are, and the reducer maps
\* any such action to the state it was given.
C15_UnknownIdNoOp ==
    [][/\ \A k \in 1..Len(ops) :
             SendActs(k) /\ ops[k].loadingMessageId \notin Ids(state.messages) =>
                 state' = state
       /\ \A id \in {now + 2, -3}, updates \in SomeUpdates :
             id \notin Ids(state.messages) =>
                 chatReducer(state, UpdateMessage(id, updates)) = state]_vars

C15_Witness ==
    \E k \in Ops("send") :
        /\ ops[k].outcome = "ok"
        /\ ops[k].dispatched # <<>>
        /\ Placeholders(k) = {}
        /\ KeptAll(state.messages) = StoredHistory

\* the step in which the history load of call k succeeds
Loaded(k) == ops[k].pc = "history" /\ ops'[k].outcome = "ok"

\* C17: a successful loadConversationHistory(id) replaces messages by the
\* records of the response, in order, each with its id, sender and content,
\* and makes id the current conversation; no message of before survives,
\* the messages of a send in progress included.
C17_HistoryReplaces ==
    [][\A k \in 1..Len(ops) :
          Loaded(k) =>
              /\ \E records \in Histories :
                    KeptAll(state'.messages) = KeptAll(records)
              /\ state'.currentConversationId = ops[k].conversationId
              /\ \A j \in Ops("send") :
                    /\ ops[j].userMessageId \notin Ids(state'.messages)
                    /\ ops[j].loadingMessageId \notin Ids(state'.messages)]_vars

C17_Witness ==
    /\ \E k \in Ops("mount") : ops[k].outcome = "ok"
    /\ \E j \in Ops("send") : ops[j].pc = "fetch" /\ Placeholders(j) = {}
    /\ KeptAll(state.messages) = StoredHistory
    /\ state.currentConversationId = "c1"

\* the step in which the history load of call k fails
LoadFails(k) == ops[k].pc = "history" /\ ops'[k].outcome = "failed"

\* C16: a failed list refresh leaves the Store state as it is; a failed
\* history load leaves it as it is but for isLoadingHistory, which is false.
C16_FailedLoadsKeepState ==
    [][/\ ListFailed => state' = state
       /\ \A k \in 1..Len(ops) :
             LoadFails(k) => state' = [state EXCEPT !.isLoadingHistory = FALSE]]_vars

C16_Witness ==
    /\ \E k \in Ops("switch") : ops[k].outcome = "failed" /\ ops[k].conversationId = "c2"
    /\ KeptAll(state.messages) = StoredHistory
    /\ state.currentConversationId = "c1"
    /\ state.conversations # <<>>
    /\ ~state.isLoadingHistory

\* the step in which the POST /conversations of call k succeeds
CreateSucceeds(k) ==
    ops[k].pc = "create" /\ ops'[k].pc # "create" /\ ops'[k].outcome = "ok"

\* C18: a successful createNewConversation() leaves currentConversationId
\* the id the server returned and messages empty, changes no other field,
\* and issues one list refresh, with those changes already made.
C18_CreateAdopts ==
    [][\A k \in 1..Len(ops) :
          CreateSucceeds(k) =>
              /\ \E id \in CreatedIds :
                    state' = [state EXCEPT !.currentConversationId = id,
                                           !.messages = <<>>]
              /\ listRequests' = listRequests + 1]_vars

C18_Witness ==
    /\ \E k \in Ops("mount") : ops[k].outcome = "ok"
    /\ \E k \in Ops("create") : ops[k].outcome = "ok" /\ ops[k].pc = "done"
    /\ state.currentConversationId = "c3"
    /\ state.messages = <<>>

\* the step in which the POST or the DELETE of call k fails
RequestFails(k) ==
    /\ ops[k].outcome = "pending"
    /\ ops'[k].outcome \in {"create-failed", "delete-failed"}

\* C19: when the POST of createNewConversation or the DELETE of
\* deleteConversation fails, the Store state is unchanged and no request
\* follows: createNewConversation returns without a list refresh, and
\* deleteConversation ends without a create and without a list refresh.
C19_FailedRequestKeepsState ==
    [][\A k \in 1..Len(ops) :
          RequestFails(k) =>
              /\ state' = state
              /\ listRequests' = listRequests
              /\ Len(ops') = Len(ops)
              /\ ops'[k].pc = IF ops[k].kind = "delete" /\ ops[k].pc = "create"
                              THEN "return" ELSE "done"]_vars

C19_Witness ==
    /\ \E k \in Ops("delete") : ops[k].outcome = "delete-failed" /\ ops[k].pc = "done"
    /\ \E k \in Ops("create") : ops[k].outcome = "create-failed" /\ ops[k].pc = "done"
    /\ state.currentConversationId = "c1"
    /\ state.messages # <<>>

\* C20: at start the list is requested; a stored conversation_id has its
\* history requested, once, and a successful load makes it the current
\* conversation; with none stored no history is requested and
\* currentConversationId stays null, messages empty.
C20_StartResumes ==
    [][/\ ~mounted /\ mounted' =>
             /\ listRequests' = listRequests + 1
             /\ cookie \in ConversationIds =>
                   /\ Len(ops') = Len(ops) + 1
                   /\ ops'[Len(ops')].kind = "mount"
                   /\ ops'[Len(ops')].pc = "history"
                   /\ ops'[Len(ops')].conversationId = cookie
             /\ cookie = Undefined =>
                   /\ ops' = ops
                   /\ state' = state
                   /\ state'.currentConversationId = Null
                   /\ state'.messages = <<>>
       /\ Cardinality({k \in 1..Len(ops') : ops'[k].kind = "mount"}) <= 1
       /\ \A k \in 1..Len(ops) :
             ops[k].kind = "mount" /\ ops[k].pc = "history" /\ ops'[k].outcome = "ok" =>
                 state'.currentConversationId = ops[k].conversationId]_vars

C20_Witness ==
    /\ mounted
    /\ cookie = "c1"
    /\ \E k \in Ops("mount") : ops[k].outcome = "ok" /\ ops[k].conversationId = "c1"
    /\ state.currentConversationId = "c1"
    /\ Cardinality(Ops("switch") \cup Ops("create") \cup Ops("delete")) = 0

\* the step in which switchConversation is called with an id not active
SwitchStarts ==
    /\ Len(ops') = Len(ops) + 1
    /\ ops'[Len(ops')].kind = "switch"
    /\ ops'[Len(ops')].outcome # "same"

\* C21: switchConversation(id), id not active, writes the cookie, then has
\* the history loaded, then closes the sidebar: after a load that
\* succeeded and after one that failed, and at no earlier step.
C21_SwitchOrder ==
    [][/\ SwitchStarts =>
             /\ cookie' = ops'[Len(ops')].conversationId
             /\ ops'[Len(ops')].pc = "history"
             /\ state'.showSidebar = state.showSidebar
       /\ \A k \in 1..Len(ops) :
             ops[k].kind = "switch" =>
                 /\ ops[k].pc = "history" /\ ops'[k].pc # "history" =>
                       /\ ops'[k].pc = "return"
                       /\ ops'[k].outcome \in {"ok", "failed"}
                       /\ state'.showSidebar = state.showSidebar
                 /\ ops[k].pc = "return" /\ ops'[k].pc # "return" =>
                       /\ ops'[k].pc = "done"
                       /\ ~state'.showSidebar]_vars

C21_Witness ==
    /\ \E k \in Ops("switch") :
         /\ ops[k].pc = "return" /\ ops[k].outcome = "failed"
         /\ cookie = ops[k].conversationId
    /\ \E k \in Ops("switch") : ops[k].pc = "done" /\ ops[k].outcome = "ok"
    /\ state.showSidebar

\* C22: with several list refreshes in flight, a response that changes
\* the state replaces conversations by its own list and changes nothing
\* else, so the list held is that of the response that resolved last.
C22_LastListWins ==
    [][listRequests' < listRequests /\ state' # state =>
           \E conversations \in ConversationLists :
               state' = [state EXCEPT !.conversations = conversations]]_vars

C22_Witness ==
    /\ listRequests >= 1
    /\ \E k \in Ops("create") : ops[k].outcome = "ok"
    /\ \E k \in Ops("refresh") : ops[k].outcome = "ok"
    /\ state.conversations = <<ConversationInfo("c1"), ConversationInfo("c2")>>

\* the message send k appended as its placeholder: with sends only, the
\* k-th call appended the messages 2k-1 and 2k
OwnPlaceholder(k) == 2 * k

\* C23: the frames and the error of a send change only the message that is
\* its own placeholder: every other message of the list keeps its content,
\* agent and isLoading, whatever other send has been started meanwhile.
C23_OnlyOwnPlaceholder ==
    [][\A k \in 1..Len(ops) :
          SendActs(k) =>
              \A i \in 1..Len(state.messages) :
                  i # OwnPlaceholder(k) => state'.messages[i] = state.messages[i]]_vars

\* the same, while the ids of the list are distinct
C23_WhileIdsUnique ==
    [][\A k \in 1..Len(ops) :
          SendActs(k) /\ C11_UniqueIds =>
              \A i \in 1..Len(state.messages) :
                  i # OwnPlaceholder(k) => state'.messages[i] = state.messages[i]]_vars

\* C29: a message with isLoading = true has empty content.
C29_LoadingIsEmpty ==
    \A i \in 1..Len(state.messages) :
        state.messages[i].isLoading = TRUE => state.messages[i].content = <<>>

\* the same, while the ids of the list are distinct
C29_WhileIdsUnique ==
    C11_UniqueIds => C29_LoadingIsEmpty

\* the user's last call was switchConversation(B), which has completed
\* with its history loaded, and no history load is under way
SwitchedTo(B) ==
    /\ ops # <<>>
    /\ ops[Len(ops)].kind = "switch"
    /\ ops[Len(ops)].pc = "done"
    /\ ops[Len(ops)].outcome = "ok"
    /\ ops[Len(ops)].conversationId = B
    /\ Loading(ops) = {}

\* C24: after switchConversation(B) has completed with its history loaded,
\* currentConversationId is B until the user's next call, also while the
\* stream of an earlier send is still delivering frames.
C24_SwitchedStaysCurrent ==
    [][\A B \in ConversationIds :
          /\ SwitchedTo(B)
          /\ state.currentConversationId = B
          /\ Len(ops') = Len(ops)
          => state'.currentConversationId = B]_vars

\* the step in which a call of switchConversation returns
SwitchReturns(k) ==
    ops[k].kind = "switch" /\ ops[k].pc # "done" /\ ops'[k].pc = "done"

\* C25: when a call of switchConversation returns, the conversation_id
\* cookie equals currentConversationId, whether its history load
\* succeeded or failed.
C25_CookieIsCurrent ==
    [][\A k \in 1..Len(ops) :
          SwitchReturns(k) => cookie' = state'.currentConversationId]_vars

\* C26: isLoadingHistory is true in every state in which a history request
\* is in flight, and false once none is.
C26_FlagWhileLoading ==
    /\ Loading(ops) # {} => state.isLoadingHistory
    /\ Loading(ops) = {} => ~state.isLoadingHistory

IsPrefix(a, b) == Len(a) <= Len(b) /\ SubSeq(b, 1, Len(a)) = a

\* send k has applied its first chunk
ChunkApplied(k) == ops[k].kind = "send" /\ ops[k].accumulatedContent # <<>>

\* C27: once the first chunk of a send has been applied, every later
\* content of its placeholder has the earlier ones as prefixes, also when
\* reading the stream fails part-way.
C27_ContentGrows ==
    [][\A k \in 1..Len(ops) :
          ChunkApplied(k) =>
              \A i \in Placeholders(k) :
                  IsPrefix(state.messages[i].content, state'.messages[i].content)]_vars

\* the step in which a read of send k fails
ReadFails(k) == ops[k].pc = "read" /\ ops'[k].outcome = "readerror"

\* C27, amended: the content grows by prefixes as long as the reads
\* succeed; a read that fails replaces it by the error's message.
C27_ContentGrowsUntilError ==
    [][\A k \in 1..Len(ops) :
          ChunkApplied(k) =>
              \A i \in Placeholders(k) :
                  IF ReadFails(k)
                  THEN /\ \E m \in NetworkErrors :
                             state'.messages[i].content = Text(m)
                       /\ state'.messages[i].isLoading = FALSE
                  ELSE /\ IsPrefix(state.messages[i].content,
                                   state'.messages[i].content)
                       /\ state'.messages[i].content = ops'[k].accumulatedContent]_vars

C27_Witness ==
    \E k \in Ops("send") :
        /\ ops[k].outcome = "readerror"
        /\ ops[k].accumulatedContent = <<"a", "b">>
        /\ \A i \in Placeholders(k) : state.messages[i].content = Text("Failed to fetch")

\* send k has been made and its placeholder, if in the list, is not loading
Settled(k) ==
    /\ k \in Ops("send")
    /\ \A i \in Placeholders(k) : state.messages[i].isLoading = FALSE

\* C28: when every request is answered and every stream ends or fails, the
\* placeholder of a send eventually has isLoading false and keeps it:
\* on success, on every error status, without a body, on a read error.
C28_PlaceholderSettles ==
    \A k \in 1..MaxCalls : [](k \in Ops("send") => <>[]Settled(k))

C28_Witness ==
    /\ \E k \in Ops("send") : ops[k].outcome = "nobody" /\ Settled(k) /\ Placeholders(k) # {}
    /\ state.messages[2].content = Text(ErrNoReader)

\* the fields of ChatState
Fields == DOMAIN initialState

\* states s and t differ at most in field f
SameExcept(s, t, f) == \A g \in Fields \ {f} : s[g] = t[g]

\* payloads the actions are tried with
SomeMessages == {historyMessages(h) : h \in Histories}
OneMessage == Message(7, <<"n">>, "user", FALSE)
SomeIds == Ids(state.messages) \cup {7}
SomeFields == {[content |-> <<"z">>], [isLoading |-> FALSE, content |-> <<>>],
               [agent |-> "MathAgent"]}

\* the state after action (type, payload) in the current state
Reduced(type, payload) == chatReducer(state, Action(type, payload))

\* UPDATE_MESSAGE keeps length and order and changes the entries of id only
UpdatesOnly(id, updates) ==
    LET messages == Reduced("UPDATE_MESSAGE", [id |-> id, updates |-> updates]).messages
    IN  /\ Len(messages) = Len(state.messages)
        /\ \A i \in 1..Len(messages) :
              IF state.messages[i].id = id
              THEN /\ \A f \in DOMAIN updates : messages[i][f] = updates[f]
                   /\ \A f \in DOMAIN state.messages[i] \ DOMAIN updates :
                         messages[i][f] = state.messages[i][f]
              ELSE messages[i] = state.messages[i]

\* what a successful history load and a list refresh dispatch
HistoryDispatches(st, messages, id) ==
    chatReducer(chatReducer(chatReducer(st, Action("SET_MESSAGES", messages)),
                            Action("SET_CURRENT_CONVERSATION_ID", id)),
                Action("SET_LOADING_HISTORY", FALSE))
ListDispatches(st, conversations) ==
    chatReducer(st, Action("SET_CONVERSATIONS", conversations))

\* C30: in every reachable state each reducer action changes its own field
\* of ChatState and no other: the four message actions change messages
\* only (ADD_MESSAGE keeps the messages in order and puts the new one last,
\* UPDATE_MESSAGE keeps length and order and changes the entries of the id
\* only), the other five their one field; hence a list refresh and a
\* history load give the same state in either order.
C30_OwnFieldOnly ==
    /\ \A ms \in SomeMessages :
          /\ SameExcept(Reduced("SET_MESSAGES", ms), state, "messages")
          /\ Reduced("SET_MESSAGES", ms).messages = ms
    /\ SameExcept(Reduced("ADD_MESSAGE", OneMessage), state, "messages")
    /\ Reduced("ADD_MESSAGE", OneMessage).messages = state.messages \o <<OneMessage>>
    /\ \A id \in SomeIds, updates \in SomeFields :
          /\ SameExcept(Reduced("UPDATE_MESSAGE", [id |-> id, updates |-> updates]),
                        state, "messages")
          /\ UpdatesOnly(id, updates)
    /\ SameExcept(Reduced("RESET_MESSAGES", Null), state, "messages")
    /\ Reduced("RESET_MESSAGES", Null).messages = <<>>
    /\ \A cs \in ConversationLists :
          /\ SameExcept(Reduced("SET_CONVERSATIONS", cs), state, "conversations")
          /\ Reduced("SET_CONVERSATIONS", cs).conversations = cs
    /\ \A id \in ConversationIds \cup CreatedIds :
          /\ SameExcept(Reduced("SET_CURRENT_CONVERSATION_ID", id), state,
                        "currentConversationId")
          /\ Reduced("SET_CURRENT_CONVERSATION_ID", id).currentConversationId = id
    /\ \A b \in BOOLEAN :
          /\ SameExcept(Reduced("SET_LOADING_HISTORY", b), state, "isLoadingHistory")
          /\ Reduced("SET_LOADING_HISTORY", b).isLoadingHistory = b
          /\ SameExcept(Reduced("SET_SHOW_SIDEBAR", b), state, "showSidebar")
          /\ Reduced("SET_SHOW_SIDEBAR", b).showSidebar = b
    /\ \A v \in Inputs :
          /\ SameExcept(Reduced("SET_INPUT_VALUE", v), state, "inputValue")
          /\ Reduced("SET_INPUT_VALUE", v).inputValue = v
    /\ \A ms \in SomeMessages, id \in ConversationIds, cs \in ConversationLists :
          ListDispatches(HistoryDispatches(state, ms, id), cs)
              = HistoryDispatches(ListDispatches(state, cs), ms, id)

\* a list refresh and a history load were both applied beside a send
C30_Witness ==
    /\ state.conversations \in ConversationLists
    /\ \E k \in Ops("mount") : ops[k].outcome = "ok"
    /\ \E j \in Ops("send") : Placeholders(j) # {}
    /\ state.currentConversationId \in ConversationIds
====
